---- MODULE Spec2Model ----
(***************************************************************************)
(* A model of the Rng engine of src/src/rng.rs: the 64-bit linear          *)
(* congruential generator, the uniform draw scaled to a 64-bit float, and  *)
(* the Marsaglia polar sampler with its one-slot cache.                    *)
(*                                                                         *)
(* A u64 is a sequence of 8 limbs in base 2^8, least significant first, so *)
(* that the wrapping 64-bit arithmetic is computed at its full width.  An  *)
(* f64 is a record [neg, mant, exp] standing for (-1)^neg * mant * 2^exp   *)
(* with mant a limb sequence of at most 53 significant bits; every float   *)
(* operation computes the exact result and rounds it to nearest, ties to   *)
(* even, as IEEE-754 does.                                                 *)
(***************************************************************************)
EXTENDS Integers, Sequences, FiniteSets, TLC

\* ------------------------------------------------------------------------
\* Unsigned integers as limb sequences
\* ------------------------------------------------------------------------

LimbBits == 8
Base == 2 ^ LimbBits
U64Limbs == 64 \div LimbBits
MantBits == 53

Zeros(n) == [i \in 1..n |-> 0]

\* a zero-extended (or truncated) to n limbs
Pad(a, n) == [i \in 1..n |-> IF i <= Len(a) THEN a[i] ELSE 0]

IsZero(a) == \A i \in 1..Len(a) : a[i] = 0

\* 2^k as n limbs
Pow2(k, n) == [i \in 1..n |-> IF i = (k \div LimbBits) + 1 THEN 2 ^ (k % LimbBits) ELSE 0]

\* bit i (from 0) of a; 0 beyond its length
Bit(a, i) ==
    IF i \div LimbBits + 1 > Len(a) THEN 0
    ELSE (a[i \div LimbBits + 1] \div (2 ^ (i % LimbBits))) % 2

RECURSIVE TopLimb(_, _)
TopLimb(a, i) == IF i = 0 THEN 0 ELSE IF a[i] # 0 THEN i ELSE TopLimb(a, i - 1)

RECURSIVE Width(_)
Width(x) == IF x = 0 THEN 0 ELSE 1 + Width(x \div 2)

\* number of significant bits of a
BitLen(a) ==
    LET t == TopLimb(a, Len(a))
    IN  IF t = 0 THEN 0 ELSE (t - 1) * LimbBits + Width(a[t])

\* carry propagation over column sums; the carry out of the last limb is dropped
RECURSIVE Carry(_, _, _)
Carry(cols, i, c) ==
    IF i > Len(cols) THEN <<>>
    ELSE LET t == cols[i] + c
         IN  <<t % Base>> \o Carry(cols, i + 1, t \div Base)

\* (a + b) mod Base^n
AddN(a, b, n) ==
    LET x == Pad(a, n)
        y == Pad(b, n)
    IN  Carry([i \in 1..n |-> x[i] + y[i]], 1, 0)

RECURSIVE Borrow(_, _, _, _)
Borrow(x, y, i, b) ==
    IF i > Len(x) THEN <<>>
    ELSE LET t == x[i] - y[i] - b
         IN  IF t < 0 THEN <<t + Base>> \o Borrow(x, y, i + 1, 1)
                      ELSE <<t>> \o Borrow(x, y, i + 1, 0)

\* (a - b) mod Base^n
SubN(a, b, n) == Borrow(Pad(a, n), Pad(b, n), 1, 0)

RECURSIVE ColSum(_, _, _, _)
ColSum(x, y, k, i) ==
    IF i > k THEN 0 ELSE x[i] * y[k + 1 - i] + ColSum(x, y, k, i + 1)

\* (a * b) mod Base^n
MulN(a, b, n) ==
    LET x == Pad(a, n)
        y == Pad(b, n)
    IN  Carry([k \in 1..n |-> ColSum(x, y, k, 1)], 1, 0)

RECURSIVE CmpFrom(_, _, _)
CmpFrom(x, y, i) ==
    IF i = 0 THEN 0
    ELSE IF x[i] < y[i] THEN -1
    ELSE IF x[i] > y[i] THEN 1
    ELSE CmpFrom(x, y, i - 1)

\* -1, 0 or 1 as a < b, a = b, a > b
Cmp(a, b) ==
    LET n == IF Len(a) > Len(b) THEN Len(a) ELSE Len(b)
    IN  CmpFrom(Pad(a, n), Pad(b, n), n)

\* a with its sh low bits cleared
ClearLow(a, sh) ==
    [i \in 1..Len(a) |->
        IF i * LimbBits <= sh THEN 0
        ELSE IF (i - 1) * LimbBits >= sh THEN a[i]
        ELSE LET r == 2 ^ (sh - (i - 1) * LimbBits)
             IN  (a[i] \div r) * r]

\* a rounded to MantBits significant bits, to nearest, ties to even: the
\* integer part of what the conversion to f64 and every f64 operation do.
\* The result has one limb more than a.
RoundMant(a) ==
    LET sh == BitLen(a) - MantBits
        n  == Len(a) + 1
    IN  IF sh <= 0 THEN Pad(a, n)
        ELSE LET half   == Bit(a, sh - 1) = 1
                 sticky == \E j \in 0..(sh - 2) : Bit(a, j) = 1
                 odd    == Bit(a, sh) = 1
             IN  IF half /\ (sticky \/ odd)
                 THEN AddN(ClearLow(a, sh), Pow2(sh, n), n)
                 ELSE Pad(ClearLow(a, sh), n)

\* a shifted right by k bits (the bits shifted out are dropped)
ShiftRight(a, k) ==
    LET q == k \div LimbBits
        r == k % LimbBits
        x == Pad(a, Len(a) + 1)
    IN  [i \in 1..Len(a) |->
            IF i + q > Len(a) THEN 0
            ELSE (x[i + q] \div (2 ^ r)) + (x[i + q + 1] % (2 ^ r)) * (2 ^ (LimbBits - r))]

\* a shifted left by k bits, widened so that no bit is lost
ShiftLeft(a, k) ==
    LET n == Len(a) + (k \div LimbBits) + 1
    IN  MulN(a, Pow2(k, n), n)

RECURSIVE LowZeros(_, _)
LowZeros(a, i) == IF Bit(a, i) = 1 THEN i ELSE LowZeros(a, i + 1)

\* a without its high zero limbs
Trim(a) == SubSeq(a, 1, TopLimb(a, Len(a)))

\* ------------------------------------------------------------------------
\* f64 values: (-1)^neg * mant * 2^exp, mant odd (or empty for zero)
\* ------------------------------------------------------------------------

FZero == [neg |-> FALSE, mant |-> <<>>, exp |-> 0]

\* the f64 nearest to (-1)^neg * m * 2^e, in canonical form
Float(neg, m, e) ==
    IF IsZero(m) THEN FZero
    ELSE LET r == RoundMant(m)
             z == LowZeros(r, 0)
         IN  [neg |-> neg, mant |-> Trim(ShiftRight(r, z)), exp |-> e + z]

FOne == Float(FALSE, <<1>>, 0)
FTwo == Float(FALSE, <<2>>, 0)
FHalf == [neg |-> FALSE, mant |-> <<1>>, exp |-> 0 - 1]

\* x as f64: a u64 of more than 53 significant bits is rounded
U64ToF64(x) == Float(FALSE, x, 0)

FMul(a, b) ==
    Float(a.neg # b.neg, MulN(a.mant, b.mant, Len(a.mant) + Len(b.mant)), a.exp + b.exp)

\* a + b for a sign and magnitude pair at a common exponent
SignedSum(an, am, bn, bm, e) ==
    LET n == (IF Len(am) > Len(bm) THEN Len(am) ELSE Len(bm)) + 1
    IN  IF an = bn THEN Float(an, AddN(am, bm, n), e)
        ELSE IF Cmp(am, bm) >= 0 THEN Float(an, SubN(am, bm, n), e)
        ELSE Float(bn, SubN(bm, am, n), e)

FAdd(a, b) ==
    LET e == IF a.exp < b.exp THEN a.exp ELSE b.exp
    IN  SignedSum(a.neg, ShiftLeft(a.mant, a.exp - e), b.neg, ShiftLeft(b.mant, b.exp - e), e)

FNeg(a) == IF a = FZero THEN a ELSE [a EXCEPT !.neg = ~a.neg]

FSub(a, b) == FAdd(a, FNeg(b))

\* a < b
FLt(a, b) ==
    LET d == FSub(a, b)
    IN  d # FZero /\ d.neg

FLe(a, b) == a = b \/ FLt(a, b)

\* ------------------------------------------------------------------------
\* The engine (src/src/rng.rs)
\* ------------------------------------------------------------------------

\* Option<T>: None is the empty sequence, Some(x) the sequence of x alone
None == <<>>
Some(x) == <<x>>

\* a small number as a u64
U64(n) == Pad(<<n>>, U64Limbs)

\* Rng::A = 6364136223846793005 = 0x5851F42D4C957F2D
A == <<45, 127, 149, 76, 45, 244, 81, 88>>

\* Rng::C = 1
C == U64(1)

\* the clock reading when the model starts: 2^64 + 7 nanoseconds, so that
\* the conversion to u64 has a bit to drop
EpochNanos == <<7, 0, 0, 0, 0, 0, 0, 0, 1, 0, 0, 0, 0, 0, 0, 0>>

\* u64::MAX
U64_MAX == [i \in 1..U64Limbs |-> Base - 1]

\* INV_U64_MAX as it would be with the divisor one bit short (i64::MAX)
INV_I64_MAX ==
    LET d == U64ToF64(U64_MAX)
    IN  [neg |-> FALSE, mant |-> <<1>>, exp |-> 1 - d.exp]

\* Rng::INV_U64_MAX = 1f64 / u64::MAX as f64.  u64::MAX as f64 rounds to a
\* power of two (mantissa 1), so its reciprocal is exact.
INV_U64_MAX ==
    LET d == U64ToF64(U64_MAX)
    IN  [neg |-> FALSE, mant |-> <<1>>, exp |-> 0 - d.exp]

wrapping_mul(a, b) == MulN(a, b, U64Limbs)
wrapping_add(a, b) == AddN(a, b, U64Limbs)

VARIABLES
    rng,      \* the engine: [seed, state, cached_normal]
    clock,    \* nanoseconds the system clock has advanced since the model started
    built,    \* how the engine was constructed: [by, seed], and for new the
              \* clock reading it was made at
    hist,     \* the calls made on the engine since its construction, oldest
              \* first: [op, arg, pre, ret, draws], pre the engine before the call
    pc        \* where a call of gen_standard_normal that is followed iteration
              \* by iteration stands: [at, iters, pre, draws], at "idle" between calls
              \* and "loop" inside the loop of rng.rs:200-209

vars == <<rng, clock, built, hist, pc>>

\* SystemTime::now().duration_since(UNIX_EPOCH).as_nanos(), a u128
as_nanos == AddN(EpochNanos, <<clock>>, 2 * U64Limbs)

\* current_time as it would be if it kept the high 64 bits of the count
current_time_high == SubSeq(as_nanos, U64Limbs + 1, 2 * U64Limbs)

\* Rng::current_time: as_nanos() as u64 keeps the low 64 bits
current_time == SubSeq(as_nanos, 1, U64Limbs)

\* new_seed as it would be if it took the state from the clock, as new does
new_seed_clock(seed) == [seed |-> seed, state |-> current_time, cached_normal |-> None]

\* Rng::new_seed
new_seed(seed) == [seed |-> seed, state |-> seed, cached_normal |-> None]

\* a value below 2 * u64::MAX + 1, in U64Limbs + 1 limbs, less u64::MAX if
\* it is that large
ReduceMax(t) ==
    IF Cmp(t, U64_MAX) >= 0 THEN SubN(t, U64_MAX, U64Limbs + 1) ELSE t

\* (A * x + C) % u64::MAX from the full product: 2^64 = 1 mod u64::MAX, so
\* the high and the low word add
MulAddModMax(x) ==
    LET wide == AddN(MulN(A, x, 2 * U64Limbs), C, 2 * U64Limbs)
        sum  == AddN(SubSeq(wide, 1, U64Limbs), SubSeq(wide, U64Limbs + 1, 2 * U64Limbs),
                     U64Limbs + 1)
    IN  SubSeq(ReduceMax(ReduceMax(sum)), 1, U64Limbs)

\* next as its doc comment has it: state = (state * A + C) % u64::MAX
next_mod_max(r) ==
    [rng |-> [r EXCEPT !.state = MulAddModMax(r.state)], ret |-> MulAddModMax(r.state),
     draws |-> 1]

\* next as it would be if it returned the state it started from
next_stale(r) ==
    LET s == wrapping_add(wrapping_mul(A, r.state), C)
    IN  [rng |-> [r EXCEPT !.state = s], ret |-> r.state, draws |-> 1]

\* next as it would be if it applied the recurrence twice
next_twice(r) ==
    LET s == wrapping_add(wrapping_mul(A, r.state), C)
        t == wrapping_add(wrapping_mul(A, s), C)
    IN  [rng |-> [r EXCEPT !.state = t], ret |-> t, draws |-> 1]

\* Rng::next: the engine after the step, the value returned, and the number
\* of recurrence steps taken (kept to count an operation's uniform draws)
next(r) ==
    LET s == wrapping_add(wrapping_mul(A, r.state), C)
    IN  [rng |-> [r EXCEPT !.state = s], ret |-> s, draws |-> 1]

\* Rng::new
new == new_seed(current_time)

\* generate as it would be if a draw cleared the cache of normal values
generate_clearing(r) ==
    LET n == next(r)
    IN  [rng |-> [n.rng EXCEPT !.cached_normal = None],
         ret |-> FMul(U64ToF64(n.ret), INV_U64_MAX), draws |-> n.draws]

\* Rng::generate
generate(r) ==
    LET n == next(r)
    IN  [rng |-> n.rng, ret |-> FMul(U64ToF64(n.ret), INV_U64_MAX), draws |-> n.draws]

\* Rng::seed (the accessor; seed is also the name of the field)
seed_of(r) == r.seed

\* set_seed as it would be without the assignment to state
set_seed_keep_state(r, seed) == [r EXCEPT !.seed = seed, !.cached_normal = None]

\* set_seed as it would be without the reset of cached_normal
set_seed_keep_cache(r, seed) == [r EXCEPT !.seed = seed, !.state = seed]

\* set_seed as it would be if it took the state word from the clock
set_seed_clock(r, seed) == [seed |-> seed, state |-> current_time, cached_normal |-> None]

\* Rng::set_seed
set_seed(r, seed) == [seed |-> seed, state |-> seed, cached_normal |-> None]

\* restart as it would be without the reset of cached_normal
restart_keep_cache(r) == [r EXCEPT !.state = r.seed]

\* restart as it would be without the assignment to state
restart_keep_state(r) == [r EXCEPT !.cached_normal = None]

\* restart as it would be with the assignment reversed (seed = state)
restart_reversed(r) == [r EXCEPT !.seed = r.state, !.cached_normal = None]

\* Rng::restart
restart(r) == [r EXCEPT !.state = r.seed, !.cached_normal = None]

\* simple_ln (auxiliary.rs, not among the sources; from the description of
\* the table-driven logarithm): a table of ln at 2^LnTableBits + 1 equally
\* spaced nodes up to 1, the first node the smallest positive node in place
\* of 0; a query is answered by the index floor(x / step) and a linear
\* interpolation between the two nodes around x, and a query x <= 0 by the
\* first node.  Logarithms are kept as terms: [node |-> x] is ln(x).
LnTableBits == 10

\* the smallest positive node, 2^-20
LnEpsilon == [neg |-> FALSE, mant |-> <<1>>, exp |-> 0 - 20]

\* a non-negative integer as limbs
RECURSIVE IntLimbs(_)
IntLimbs(x) == IF x = 0 THEN <<>> ELSE <<x % Base>> \o IntLimbs(x \div Base)

\* a limb sequence as a number
RECURSIVE LimbsToInt(_)
LimbsToInt(a) == IF a = <<>> THEN 0 ELSE Head(a) + Base * LimbsToInt(Tail(a))

\* node i of the table
ln_node_x(i) == IF i = 0 THEN LnEpsilon ELSE Float(FALSE, IntLimbs(i), 0 - LnTableBits)

ln_node(i) == [node |-> ln_node_x(i)]

\* floor(x / step) for 0 < x, at most the index of the last interval
ln_index(x) ==
    LET sh == x.exp + LnTableBits
        i  == IF sh >= 0 THEN LimbsToInt(Trim(ShiftLeft(x.mant, sh)))
              ELSE LimbsToInt(Trim(ShiftRight(x.mant, 0 - sh)))
    IN  IF i >= 2 ^ LnTableBits THEN 2 ^ LnTableBits - 1 ELSE i

\* ln(x_i) + (x - x_i) / (x_i+1 - x_i) * (ln(x_i+1) - ln(x_i))
ln_interpolate(i, x) == [lo |-> ln_node(i), hi |-> ln_node(i + 1), x |-> x]

\* f64::ln at the edge, for comparison: ln(0) is negative infinity, the
\* logarithm of a negative number NaN
f64_ln(x) == IF x = FZero THEN [inf |-> TRUE, neg |-> TRUE] ELSE [nan |-> TRUE]

\* the table without a policy at the edge
simple_ln_unclamped(x) == IF FLt(FZero, x) THEN ln_interpolate(ln_index(x), x) ELSE f64_ln(x)

simple_ln(x) == IF FLt(FZero, x) THEN ln_interpolate(ln_index(x), x) ELSE ln_node(0)

\* x * sqrt(-2 * simple_ln(s) / s) (rng.rs:205-207), kept as the term of its
\* operands x, s and simple_ln(s)
Scaled(x, s) == [x |-> x, s |-> s, ln |-> simple_ln(s)]

\* 2f64 * g - 1f64 (rng.rs:201, rng.rs:202)
Centered(g) == FSub(FMul(FTwo, g), FOne)

\* u.powi(2) + v.powi(2) (rng.rs:203)
SumOfSquares(u, v) == FAdd(FMul(u, u), FMul(v, v))

RECURSIVE polar_loop(_)

\* the test of s as it would be with the two values of the pair exchanged
polar_test_swapped(r, u, v, s, d) ==
    IF FLt(s, FOne)
    THEN [rng |-> [r EXCEPT !.cached_normal = Some(Scaled(u, s))],
          ret |-> Scaled(v, s), draws |-> d]
    ELSE [polar_loop(r) EXCEPT !.draws = d + @]

\* the test of s as it would be if the accepted pair's second value were
\* dropped instead of cached
polar_test_uncached(r, u, v, s, d) ==
    IF FLt(s, FOne)
    THEN [rng |-> r, ret |-> Scaled(u, s), draws |-> d]
    ELSE [polar_loop(r) EXCEPT !.draws = d + @]

\* rng.rs:204-208: the test of s and the accepted pair.  r is the engine
\* after the two draws, d the draws made so far in this iteration.
polar_test(r, u, v, s, d) ==
    IF FLt(s, FOne)
    THEN [rng |-> [r EXCEPT !.cached_normal = Some(Scaled(v, s))],
          ret |-> Scaled(u, s), draws |-> d]
    ELSE [polar_loop(r) EXCEPT !.draws = d + @]

\* rng.rs:203
polar_pair(r, u, v, d) == polar_test(r, u, v, SumOfSquares(u, v), d)

\* rng.rs:202: the second draw, after the first draw g1
polar_second(g1, g2) ==
    polar_pair(g2.rng, Centered(g1.ret), Centered(g2.ret), g1.draws + g2.draws)

\* the first draw as it would be if the loop drew once more and dropped
\* the value: three draws an iteration
polar_first_dropping(g1) ==
    polar_second([generate(g1.rng) EXCEPT !.draws = g1.draws + @],
                 generate(generate(g1.rng).rng))

\* rng.rs:201
polar_first(g1) == polar_second(g1, generate(g1.rng))

\* Rng::gen_standard_normal, the loop (rng.rs:200-209): one iteration per call
polar_loop(r) == polar_first(generate(r))

\* gen_standard_normal as it would be with as_ref() in place of take(): the
\* cached value is returned and stays in the cache
gen_standard_normal_peek(r) ==
    IF r.cached_normal # None
    THEN [rng |-> r, ret |-> r.cached_normal[1], draws |-> 0]
    ELSE polar_loop(r)

\* gen_standard_normal as it would be without the cache: every call draws
\* a pair
gen_standard_normal_fresh(r) == polar_loop(r)

\* Rng::gen_standard_normal
gen_standard_normal(r) ==
    IF r.cached_normal # None
    THEN [rng |-> [r EXCEPT !.cached_normal = None], ret |-> r.cached_normal[1],
          draws |-> 0]
    ELSE polar_loop(r)

\* rng.rs:204-208 for one iteration: the engine after it, whether the pair
\* was accepted, and the value returned if it was.  r is the engine after
\* the two draws, d the draws of the iteration.
iteration_test(r, u, v, s, d) ==
    IF FLt(s, FOne)
    THEN [rng |-> [r EXCEPT !.cached_normal = Some(Scaled(v, s))],
          done |-> TRUE, ret |-> Some(Scaled(u, s)), draws |-> d]
    ELSE [rng |-> r, done |-> FALSE, ret |-> None, draws |-> d]

\* rng.rs:203
iteration_pair(r, u, v, d) == iteration_test(r, u, v, SumOfSquares(u, v), d)

\* rng.rs:202
iteration_second(g1, g2) ==
    iteration_pair(g2.rng, Centered(g1.ret), Centered(g2.ret), g1.draws + g2.draws)

\* rng.rs:201
iteration_first(g1) == iteration_second(g1, generate(g1.rng))

\* an iteration whose rejected pair leaves the engine r it started from
retry_from(it, r) == IF it.done THEN it ELSE [it EXCEPT !.rng = r]

\* the iteration as it would be if a rejected pair were tested again instead
\* of drawn again (the two draws made before the loop, not inside it)
polar_iteration_hoisted(r) == retry_from(iteration_first(generate(r)), r)

\* Rng::gen_standard_normal, one iteration of the loop (rng.rs:201-208)
polar_iteration(r) == iteration_first(generate(r))

\* ------------------------------------------------------------------------
\* The distributions that embed an engine (auto_rng_trait!, rng.rs:221-286)
\* ------------------------------------------------------------------------

\* A distribution is a record of its kind and parameters; its engine is kept
\* beside it.  Values computed from a standard normal value, which is itself
\* a term, are kept as terms of their operands.

\* Normal { mean, std } (normal.rs:18-30)
NormalOf(mean, std) == [kind |-> "Normal", mean |-> mean, std |-> std]

\* StudentsT { k } (students_t.rs:16-22)
StudentsTOf(k) == [kind |-> "StudentsT", k |-> k]

\* f64::NAN, and the comparisons of f64 values that may be NaN: every
\* comparison with a NaN is false
NaN == [nan |-> TRUE]

IsNaN(x) == "nan" \in DOMAIN x

f64_lt(a, b) == ~IsNaN(a) /\ ~IsNaN(b) /\ FLt(a, b)

f64_le(a, b) == ~IsNaN(a) /\ ~IsNaN(b) /\ FLe(a, b)

\* Bernoulli { probability } (bernoulli.rs:17-23)
BernoulliOf(probability) == [kind |-> "Bernoulli", probability |-> probability]

\* Geometric { probability } (geometric.rs)
GeometricOf(probability) == [kind |-> "Geometric", probability |-> probability]

\* geometric.rs:67: (simple_ln(g) / simple_ln(1 - p)).ceil() as i32, kept as
\* the term of the two logarithms
geometric_value(w, g) ==
    [rng |-> g.rng,
     ret |-> [num |-> simple_ln(g.ret), den |-> simple_ln(FSub(FOne, w.probability))],
     draws |-> g.draws]

\* Geometric::generate
geometric_generate(w, r) == geometric_value(w, generate(r))

\* Uniform { a, b } (uniform.rs)
UniformOf(a, b) == [kind |-> "Uniform", a |-> a, b |-> b]

\* bernoulli.rs:78-82: the u32 returned for the uniform draw g
bernoulli_value(w, g) ==
    [rng |-> g.rng, ret |-> IF f64_lt(g.ret, w.probability) THEN 1 ELSE 0, draws |-> g.draws]

\* Bernoulli::generate
bernoulli_generate(w, r) == bernoulli_value(w, generate(r))

\* Bernoulli::change_probability (bernoulli.rs:98-108): the Bernoulli after
\* the call and what the call returned
bernoulli_change_probability(w, probability) ==
    IF f64_lt(probability, FZero) \/ f64_lt(FOne, probability)
    THEN [of |-> w, res |-> [err |-> "String", value |-> probability]]
    ELSE [of |-> [w EXCEPT !.probability = probability], res |-> [ok |-> <<>>]]

\* uniform.rs:66: a + (b - a) * g
uniform_value(w, g) ==
    [rng |-> g.rng, ret |-> FAdd(w.a, FMul(FSub(w.b, w.a), g.ret)), draws |-> g.draws]

\* Uniform::generate
uniform_generate(w, r) == uniform_value(w, generate(r))

\* normal.rs:89: std * z + mean
normal_value(w, z) ==
    [rng |-> z.rng, ret |-> [std |-> w.std, z |-> z.ret, mean |-> w.mean], draws |-> z.draws]

\* Normal::generate
normal_generate(w, r) == normal_value(w, gen_standard_normal(r))

RECURSIVE students_t_loop(_, _, _)

\* students_t.rs:61: sum += z.powi(2), the squares kept in the order added
students_t_add(z, k, acc) ==
    [students_t_loop(z.rng, k - 1, Append(acc, z.ret)) EXCEPT !.draws = @ + z.draws]

\* students_t.rs:60-62: the loop over the k degrees of freedom
students_t_loop(r, k, acc) ==
    IF k = 0 THEN [rng |-> r, sum |-> acc, draws |-> 0]
    ELSE students_t_add(gen_standard_normal(r), k, acc)

\* students_t.rs:64: z / (sum / k).sqrt()
students_t_value(l, z, k) ==
    [rng |-> z.rng, ret |-> [z |-> z.ret, sum |-> l.sum, k |-> k], draws |-> l.draws + z.draws]

students_t_last(l, k) == students_t_value(l, gen_standard_normal(l.rng), k)

\* StudentsT::generate
students_t_generate(w, r) == students_t_last(students_t_loop(r, w.k, <<>>), w.k)

\* n as f64 for an i32 n (exact)
I32ToF64(n) == IF n < 0 THEN Float(TRUE, IntLimbs(0 - n), 0) ELSE Float(FALSE, IntLimbs(n), 0)

\* RngError::PositiveError { value } and RngError::IntervalError { value,
\* min, max } (rng_error.rs:22, rng_error.rs:25)
PositiveError(value) == [err |-> "PositiveError", value |-> value]

IntervalError(value, min, max) == [err |-> "IntervalError", value |-> value, min |-> min, max |-> max]

Ok(x) == [ok |-> x]

IsOk(res) == "ok" \in DOMAIN res

\* RngError::check_positive (rng_error.rs:137-143)
check_positive(value) == IF f64_lt(FZero, value) THEN Ok(<<>>) ELSE PositiveError(value)

\* RngError::check_interval (rng_error.rs:162-168)
check_interval(value, min, max) ==
    IF f64_le(min, value) /\ f64_le(value, max) THEN Ok(<<>>) ELSE IntervalError(value, min, max)

\* a u128 is 16 limbs
U128Limbs == 2 * U64Limbs

\* binomial.rs:160, one factor of the product: the wrapped u128 product of
\* acc and i (i below 2^7), and whether a multiplication has overflowed so far
factorial_wide(acc, wide) ==
    [value |-> SubSeq(wide, 1, U128Limbs), overflow |-> acc.overflow \/ wide[U128Limbs + 1] # 0]

factorial_times(acc, i) ==
    factorial_wide(acc, Carry([k \in 1..(U128Limbs + 1) |->
                                 IF k <= U128Limbs THEN acc.value[k] * i ELSE 0], 1, 0))

\* the running products of (1u128..=num as u128).product(): 0!, 1!, ..., num!,
\* each computed from the one before as the fold does.  done holds the
\* products below lo; the range lo..hi is split in two only to keep the
\* evaluation shallow, and d names the value of done.
RECURSIVE factorial_fold(_, _, _)
factorial_fold(lo, hi, done) ==
    IF lo > hi THEN done
    ELSE IF lo = hi
    THEN CHOOSE more \in {Append(d, factorial_times(d[lo], lo)) : d \in {done}} : TRUE
    ELSE CHOOSE more \in {factorial_fold((lo + hi) \div 2 + 1, hi, d) :
                             d \in {factorial_fold(lo, (lo + hi) \div 2, done)}} : TRUE

factorial_products(num) ==
    factorial_fold(1, num, <<[value |-> Pad(<<1>>, U128Limbs), overflow |-> FALSE]>>)

\* Binomial::factorial (binomial.rs:159-161): the wrapped product and whether
\* a multiplication overflowed
factorial(num) == factorial_products(num)[num + 1]

\* u128 division, the quotient a / b for b # 0, by long division over the
\* bits of a.  One step brings bit i of a down to the remainder and sets
\* bit i of the quotient if b fits.
u128_div_fit(b, i, quot, r) ==
    IF Cmp(r, b) >= 0
    THEN [rem |-> SubN(r, b, U128Limbs + 1), quot |-> [quot EXCEPT ![i \div LimbBits + 1] = @ + 2 ^ (i % LimbBits)]]
    ELSE [rem |-> r, quot |-> quot]

u128_div_step(a, b, i, st) ==
    CHOOSE n \in {u128_div_fit(b, i, st.quot, r) :
                    r \in {AddN(AddN(st.rem, st.rem, U128Limbs + 1), <<Bit(a, i)>>,
                                U128Limbs + 1)}} : TRUE

\* the steps for bits hi down to lo; the range is split in two only to
\* keep the evaluation shallow, and n names the value after the upper half
RECURSIVE u128_div_from(_, _, _, _, _)
u128_div_from(a, b, hi, lo, st) ==
    IF hi < lo THEN st
    ELSE IF hi = lo THEN u128_div_step(a, b, hi, st)
    ELSE CHOOSE q \in {u128_div_from(a, b, (lo + hi) \div 2, lo, n) :
                          n \in {u128_div_from(a, b, hi, (lo + hi) \div 2 + 1, st)}} : TRUE

u128_div(a, b) ==
    u128_div_from(a, b, BitLen(a) - 1, 0,
                  [rem |-> Zeros(U128Limbs + 1), quot |-> Zeros(U128Limbs)]).quot

\* Binomial::binomial_coefficient (binomial.rs:148-150) in a build that
\* wraps: factorial(n) / factorial(k) / factorial(n - k).  products[j + 1]
\* is factorial(j); no divisor is zero for n <= 128.
binomial_coefficient(products, n, k) ==
    u128_div(u128_div(products[n + 1].value, products[k + 1].value), products[n - k + 1].value)

\* Binomial::binomial_coefficient (binomial.rs:148-150): whether computing
\* factorial(n) / factorial(k) / factorial(n - k) panics, by an overflow in
\* a build that checks overflow or by a zero divisor.  products[j + 1] is
\* factorial(j).
coefficient_panics(products, n, k, overflow_checks) ==
    \/ overflow_checks /\ products[n + 1].overflow
    \/ overflow_checks /\ products[k + 1].overflow
    \/ IsZero(products[k + 1].value)
    \/ overflow_checks /\ products[n - k + 1].overflow
    \/ IsZero(products[n - k + 1].value)

\* Binomial::get_cdf (binomial.rs:108-118): whether the loop over k in
\* 0..=n panics
get_cdf_panics(n, overflow_checks) ==
    \E products \in {factorial_products(n)} :
        \E k \in 0..n : coefficient_panics(products, n, k, overflow_checks)

\* the cumulative probabilities get_cdf returns, a function of n and p
\* alone, kept as the term of its operands
Cdf(n, p) == [n |-> n, p |-> p]

\* Binomial { n, p, cdf } (binomial.rs:28-42)
BinomialOf(n, p) == [kind |-> "Binomial", n |-> n, p |-> p, cdf |-> Cdf(n, p)]

Panic == [panic |-> TRUE]

\* binomial.rs:68-74: the Binomial is built, with its engine from Rng::new(),
\* after get_cdf has returned
binomial_build(n, p, overflow_checks) ==
    IF get_cdf_panics(n, overflow_checks) THEN Panic
    ELSE [ok |-> BinomialOf(n, p), rng |-> Some(new)]

\* binomial.rs:66
binomial_check_p(n, p, overflow_checks, checked) ==
    IF IsOk(checked) THEN binomial_build(n, p, overflow_checks) ELSE checked

\* binomial.rs:65
binomial_check_n(n, p, overflow_checks, checked) ==
    IF IsOk(checked)
    THEN binomial_check_p(n, p, overflow_checks, check_interval(p, FZero, FOne))
    ELSE checked

\* binomial.rs:64
binomial_check_positive(n, p, overflow_checks, checked) ==
    IF IsOk(checked)
    THEN binomial_check_n(n, p, overflow_checks,
                          check_interval(I32ToF64(n), FZero, I32ToF64(128)))
    ELSE checked

\* Binomial::new (binomial.rs:63-75): Ok(Binomial), Err(RngError) or a panic.
\* overflow_checks is the build's choice to check integer overflow (debug)
\* or to wrap (release).
binomial_new(n, p, overflow_checks) ==
    binomial_check_positive(n, p, overflow_checks, check_positive(I32ToF64(n)))

\* the generate method of the distribution w, on its engine r
wrapper_generate(w, r) ==
    CASE w.kind = "Normal" -> normal_generate(w, r)
      [] w.kind = "StudentsT" -> students_t_generate(w, r)
      [] w.kind = "Bernoulli" -> bernoulli_generate(w, r)
      [] w.kind = "Uniform" -> uniform_generate(w, r)
      [] w.kind = "Geometric" -> geometric_generate(w, r)

\* self.generate() as f64 (rng.rs:280): the u32 of a Bernoulli is converted,
\* an f64 is kept
as_f64(w, x) == IF w.kind = "Bernoulli" THEN Float(FALSE, <<x>>, 0) ELSE x

RECURSIVE generate_multiple_from(_, _, _, _)

\* rng.rs:280: randoms.push(self.generate() as f64)
generate_multiple_push(w, g, k, number) ==
    [generate_multiple_from(w, g.rng, k + 1, number)
        EXCEPT !.ret = <<as_f64(w, g.ret)>> \o @, !.draws = @ + g.draws]

\* rng.rs:279-281: the loop for _ in 0..number, at its k-th round (from 0)
generate_multiple_from(w, r, k, number) ==
    IF k >= number THEN [rng |-> r, ret |-> <<>>, draws |-> 0]
    ELSE generate_multiple_push(w, wrapper_generate(w, r), k, number)

\* generate_multiple as it would be with the range 0..=number
generate_multiple_inclusive(w, r, number) == generate_multiple_from(w, r, 0, number + 1)

\* auto_rng_trait! generate_multiple (rng.rs:276-283)
generate_multiple(w, r, number) == generate_multiple_from(w, r, 0, number)

\* auto_rng_trait! set_seed (rng.rs:241-243)
trait_set_seed(r, seed) == set_seed(r, seed)

\* auto_rng_trait! restart (rng.rs:249-251)
trait_restart(r) == restart(r)

\* reset as it would be if it wrote the state itself and not through restart
trait_reset_state_only(r) == [r EXCEPT !.state = r.seed]

\* auto_rng_trait! reset (rng.rs:256-258)
trait_reset(r) == restart(r)

\* ------------------------------------------------------------------------
\* The state machine: one engine and the calls made on it
\* ------------------------------------------------------------------------

MaxOps == 3
MaxRun == 6
MaxClock == 1

\* seeds whose first draws meet the edges: 42 (the spec's scenario), a seed
\* whose first state is 0 (draw 0.0), one whose first state is u64::MAX
\* (draw 1.0), one whose first state is 2^53 + 1 (a rounding tie), and one
\* whose first two states are 2^63 and 2^63 + 1 (u = v = 0 in the sampler)
Seed42     == U64(42)
SeedToZero == <<91, 215, 97, 205, 120, 16, 104, 63>>
SeedToMax  == <<182, 174, 195, 154, 241, 32, 208, 126>>
SeedToTie  == <<0, 0, 0, 0, 0, 0, 160, 20>>
SeedToHalf == <<91, 215, 97, 205, 120, 16, 104, 191>>

Seeds == {Seed42, SeedToZero, SeedToMax, SeedToTie, SeedToHalf}
Reseeds == {Seed42, SeedToMax}

\* the record of a call: res is what the operation returned
Call(op, arg, res) ==
    [op |-> op, arg |-> arg, pre |-> rng, ret |-> res.ret, draws |-> res.draws]

\* a draw returns a value; restart and set_seed return nothing and make no draw
Returned(g) == [ret |-> Some(g.ret), draws |-> g.draws]
NoResult == [ret |-> None, draws |-> 0]

\* no call of gen_standard_normal is in its loop
Idle == [at |-> "idle", iters |-> 0, pre |-> None, draws |-> 0]

Init ==
    /\ clock = 0
    /\ \E s \in Seeds : rng = new_seed(s) /\ built = [by |-> "new_seed", seed |-> s]
    /\ hist = <<>>
    /\ pc = Idle

NewSeed(s) ==
    /\ rng' = new_seed(s)
    /\ built' = [by |-> "new_seed", seed |-> s]
    /\ hist' = <<>>
    /\ UNCHANGED <<clock, pc>>

New ==
    /\ rng' = new
    /\ built' = [by |-> "new", seed |-> current_time, clock |-> clock]
    /\ hist' = <<>>
    /\ UNCHANGED <<clock, pc>>

\* the effect of a call of generate, gen_standard_normal, restart, set_seed
DoGenerate ==
    /\ hist' = Append(hist, Call("generate", None, Returned(generate(rng))))
    /\ rng' = generate(rng).rng
    /\ UNCHANGED <<clock, built, pc>>

DoGenStandardNormal ==
    /\ hist' = Append(hist, Call("gen_standard_normal", None, Returned(gen_standard_normal(rng))))
    /\ rng' = gen_standard_normal(rng).rng
    /\ UNCHANGED <<clock, built, pc>>

DoRestart ==
    /\ hist' = Append(hist, Call("restart", None, NoResult))
    /\ rng' = restart(rng)
    /\ UNCHANGED <<clock, built, pc>>

DoSetSeed(s) ==
    /\ hist' = Append(hist, Call("set_seed", Some(s), NoResult))
    /\ rng' = set_seed(rng, s)
    /\ UNCHANGED <<clock, built, pc>>

Generate == Len(hist) < MaxOps /\ DoGenerate

GenStandardNormal == Len(hist) < MaxOps /\ DoGenStandardNormal

Restart == Len(hist) < MaxOps /\ DoRestart

SetSeed(s) == Len(hist) < MaxOps /\ DoSetSeed(s)

\* the system clock advances
Tick ==
    /\ clock < MaxClock
    /\ clock' = clock + 1
    /\ UNCHANGED <<rng, built, hist, pc>>

Next ==
    \/ \E s \in Seeds : NewSeed(s)
    \/ New
    \/ Generate
    \/ GenStandardNormal
    \/ Restart
    \/ \E s \in Reseeds : SetSeed(s)
    \/ Tick

Spec == Init /\ [][Next]_vars

\* seed and state are pub fields (rng.rs:17, rng.rs:22): a caller may assign
\* them directly
WriteSeed(s) ==
    /\ Len(hist) < MaxOps
    /\ hist' = Append(hist, Call("write_seed", Some(s), NoResult))
    /\ rng' = [rng EXCEPT !.seed = s]
    /\ UNCHANGED <<clock, built, pc>>

WriteState(s) ==
    /\ Len(hist) < MaxOps
    /\ hist' = Append(hist, Call("write_state", Some(s), NoResult))
    /\ rng' = [rng EXCEPT !.state = s]
    /\ UNCHANGED <<clock, built, pc>>

NextPub ==
    \/ Next
    \/ \E s \in Reseeds : WriteSeed(s)
    \/ \E s \in Reseeds : WriteState(s)

SpecPub == Init /\ [][NextPub]_vars

\* longer runs of draws and restarts alone, on an engine built by new_seed
RunGenerate == Len(hist) < MaxRun /\ DoGenerate

RunGenStandardNormal == Len(hist) < MaxRun /\ DoGenStandardNormal

RunRestart == Len(hist) < MaxRun /\ DoRestart

NextRun ==
    \/ RunGenerate
    \/ RunGenStandardNormal
    \/ RunRestart

SpecRun == Init /\ [][NextRun]_vars

\* a call of gen_standard_normal followed iteration by iteration, among
\* calls of generate that move the engine along its stream
MaxIter == 4

LoopGenerate == pc.at = "idle" /\ Len(hist) < MaxRun /\ DoGenerate

\* rng.rs:195-197: the call that finds a value in the cache returns at once
LoopCached ==
    /\ pc.at = "idle"
    /\ Len(hist) < MaxRun
    /\ rng.cached_normal # None
    /\ DoGenStandardNormal

\* rng.rs:199-200: the call that finds the cache empty enters the loop
LoopBegin ==
    /\ pc.at = "idle"
    /\ Len(hist) < MaxRun
    /\ rng.cached_normal = None
    /\ pc' = [at |-> "loop", iters |-> 0, pre |-> Some(rng), draws |-> 0]
    /\ UNCHANGED <<rng, clock, built, hist>>

\* the effect of the iteration it: the call returns, or the loop goes round
LoopStep(it) ==
    /\ rng' = it.rng
    /\ IF it.done
       THEN /\ hist' = Append(hist, [op |-> "gen_standard_normal", arg |-> None,
                                     pre |-> pc.pre[1], ret |-> it.ret,
                                     draws |-> pc.draws + it.draws])
            /\ pc' = Idle
       ELSE /\ hist' = hist
            /\ pc' = [pc EXCEPT !.iters = @ + 1, !.draws = @ + it.draws]
    /\ UNCHANGED <<clock, built>>

\* rng.rs:200-209: one iteration of the loop
LoopIterate ==
    /\ pc.at = "loop"
    /\ pc.iters < MaxIter
    /\ LoopStep(polar_iteration(rng))

NextLoop ==
    \/ LoopGenerate
    \/ LoopCached
    \/ LoopBegin
    \/ LoopIterate

\* what an iteration does to the position of the call: it returns or goes
\* round once more
LoopTurn ==
    /\ pc.at = "loop"
    /\ pc.iters < MaxIter
    /\ pc' \in {Idle, [pc EXCEPT !.iters = @ + 1, !.draws = @ + 2]}

\* the loop is sequential code: an iteration that can run does run
SpecLoop == Init /\ [][NextLoop]_vars /\ WF_pc(LoopTurn)

\* a distribution that draws standard normal values, built by its new (an
\* engine seeded from the clock) and used through its own methods
MaxWrap == 4

NormalWrappers == {NormalOf(FZero, FOne), StudentsTOf(1), StudentsTOf(2)}

InitWrap ==
    /\ clock = 0
    /\ rng = new
    /\ \E w \in NormalWrappers : built = [by |-> "new", seed |-> current_time, of |-> w]
    /\ hist = <<>>
    /\ pc = Idle

WrapGenerate ==
    /\ Len(hist) < MaxWrap
    /\ \E g \in {wrapper_generate(built.of, rng)} :
           /\ hist' = Append(hist, Call("wrapper.generate", None, Returned(g)))
           /\ rng' = g.rng
    /\ UNCHANGED <<clock, built, pc>>

WrapRestart ==
    /\ Len(hist) < MaxWrap
    /\ hist' = Append(hist, Call("wrapper.restart", None, NoResult))
    /\ rng' = trait_restart(rng)
    /\ UNCHANGED <<clock, built, pc>>

WrapReset ==
    /\ Len(hist) < MaxWrap
    /\ hist' = Append(hist, Call("wrapper.reset", None, NoResult))
    /\ rng' = trait_reset(rng)
    /\ UNCHANGED <<clock, built, pc>>

WrapSetSeed(s) ==
    /\ Len(hist) < MaxWrap
    /\ hist' = Append(hist, Call("wrapper.set_seed", Some(s), NoResult))
    /\ rng' = trait_set_seed(rng, s)
    /\ UNCHANGED <<clock, built, pc>>

NextWrap ==
    \/ WrapGenerate
    \/ WrapRestart
    \/ WrapReset
    \/ \E s \in Reseeds : WrapSetSeed(s)

SpecWrap == InitWrap /\ [][NextWrap]_vars

\* calls of Binomial::new, from a state with no distribution and no engine;
\* FSmall is 2^-100
FSmall == [neg |-> FALSE, mant |-> <<1>>, exp |-> 0 - 100]

BinomialTrials == {0 - 2147483647, 0 - 1, 0, 1, 2, 34, 35, 128, 129, 2147483647}

BinomialProbabilities == {FNeg(FHalf), FNeg(FSmall), FZero, FSmall, FHalf, FOne, FAdd(FOne, [neg |-> FALSE, mant |-> <<1>>, exp |-> 0 - 52]), FTwo, NaN}

Nothing == [by |-> "nothing"]

InitNothing ==
    /\ clock = 0
    /\ rng = None
    /\ built = Nothing
    /\ hist = <<>>
    /\ pc = Idle

\* the effect of a call that returned res: the Binomial and its engine if
\* it returned Ok, nothing otherwise
Constructed(args, res) ==
    /\ hist = <<>>
    /\ hist' = <<[op |-> "Binomial::new", arg |-> Some(args), pre |-> None, ret |-> Some(res), draws |-> 0]>>
    /\ IF IsOk(res)
       THEN /\ rng' = res.rng[1]
            /\ built' = [by |-> "new", seed |-> res.rng[1].seed, clock |-> clock, of |-> res.ok]
       ELSE /\ rng' = None
            /\ built' = Nothing
    /\ UNCHANGED <<clock, pc>>

BinomialNew(n, p, overflow_checks) ==
    Constructed([n |-> n, p |-> p, overflow_checks |-> overflow_checks],
                binomial_new(n, p, overflow_checks))

NextBinomial ==
    \/ \E n \in BinomialTrials, p \in BinomialProbabilities, overflow_checks \in BOOLEAN :
          BinomialNew(n, p, overflow_checks)
    \/ Tick

SpecBinomial == InitNothing /\ [][NextBinomial]_vars

\* The recurrence of Rng::next at a word of CycleBits bits in place of 64:
\* A and C are reduced mod 2^CycleBits, the wrapping operations wrap there.
CycleBits == 8

\* the low two limbs of a word as a number
LowWord(a) == LimbsToInt(SubSeq(a, 1, 2))

\* next at the narrow word as it would be without the increment C
next_narrow_no_increment(x) == ((LowWord(A) % (2 ^ CycleBits)) * x) % (2 ^ CycleBits)

\* rng.rs:139 at the narrow word: A.wrapping_mul(state).wrapping_add(C)
next_narrow(x) ==
    ((LowWord(A) % (2 ^ CycleBits)) * x + (LowWord(C) % (2 ^ CycleBits))) % (2 ^ CycleBits)

CycleSeeds == {0, 42, 2 ^ CycleBits - 1}

\* a narrow engine built by new_seed; built counts the calls of next
InitCycle ==
    /\ clock = 0
    /\ \E s \in CycleSeeds :
           /\ rng = [seed |-> s, state |-> s, cached_normal |-> None]
           /\ built = [by |-> "new_seed", seed |-> s, steps |-> 0]
    /\ hist = <<>>
    /\ pc = Idle

CycleNext ==
    /\ built.steps < 2 ^ CycleBits
    /\ rng' = [rng EXCEPT !.state = next_narrow(rng.state)]
    /\ built' = [built EXCEPT !.steps = @ + 1]
    /\ UNCHANGED <<clock, hist, pc>>

\* the engine is rebuilt
CycleNewSeed ==
    /\ built.steps = 2 ^ CycleBits
    /\ rng' = [seed |-> rng.seed, state |-> rng.seed, cached_normal |-> None]
    /\ built' = [built EXCEPT !.steps = 0]
    /\ UNCHANGED <<clock, hist, pc>>

NextCycle == CycleNext \/ CycleNewSeed

SpecCycle == InitCycle /\ [][NextCycle]_vars

\* a distribution whose generate takes a logarithm by simple_ln
LnWrappers == {GeometricOf(FHalf), NormalOf(FZero, FOne)}

InitLn ==
    /\ clock = 0
    /\ rng = new
    /\ \E w \in LnWrappers : built = [by |-> "new", seed |-> current_time, of |-> w]
    /\ hist = <<>>
    /\ pc = Idle

LnGenerate ==
    /\ Len(hist) < MaxOps
    /\ \E g \in {wrapper_generate(built.of, rng)} :
           /\ hist' = Append(hist, Call("wrapper.generate", None, Returned(g)))
           /\ rng' = g.rng
    /\ UNCHANGED <<clock, built, pc>>

LnSetSeed(s) ==
    /\ Len(hist) < MaxOps
    /\ hist' = Append(hist, Call("wrapper.set_seed", Some(s), NoResult))
    /\ rng' = trait_set_seed(rng, s)
    /\ UNCHANGED <<clock, built, pc>>

NextLn ==
    \/ LnGenerate
    \/ \E s \in Seeds : LnSetSeed(s)

SpecLn == InitLn /\ [][NextLn]_vars

\* ------------------------------------------------------------------------
\* RandEl (src/src/randel.rs); vec is kept as its length, a usize
\* ------------------------------------------------------------------------

\* f64::floor
floor(x) ==
    IF x.exp >= 0 THEN x
    ELSE IF x.neg /\ ~IsZero(SubN(x.mant, ShiftLeft(ShiftRight(x.mant, 0 - x.exp), 0 - x.exp),
                                  Len(x.mant) + 1))
    THEN Float(TRUE, AddN(ShiftRight(x.mant, 0 - x.exp), <<1>>, Len(x.mant) + 1), 0)
    ELSE Float(x.neg, ShiftRight(x.mant, 0 - x.exp), 0)

\* f64::min (neither value is NaN here)
min(a, b) == IF FLt(b, a) THEN b ELSE a

\* x as usize: the fraction is dropped, a negative value becomes 0 and a
\* value of 2^64 or more usize::MAX
as_usize(x) ==
    IF x = FZero \/ x.neg THEN Zeros(U64Limbs)
    ELSE IF BitLen(x.mant) + x.exp > 64 THEN U64_MAX
    ELSE IF x.exp >= 0 THEN Pad(ShiftLeft(x.mant, x.exp), U64Limbs)
    ELSE Pad(ShiftRight(x.mant, 0 - x.exp), U64Limbs)

EmptyError == [err |-> "EmptyError"]

\* RngError::check_empty (rng_error.rs:181-187)
check_empty(len) == IF ~IsZero(len) THEN Ok(<<>>) ELSE EmptyError

\* RandEl { rng, vec } (randel.rs:6-12)
RandElOf(len) == [kind |-> "RandEl", len |-> len]

\* randel.rs:30-33, after the check: r is the engine Rng::new() returns
randel_build(len, r, checked) ==
    IF IsOk(checked) THEN [ok |-> RandElOf(len), rng |-> Some(r)] ELSE checked

\* RandEl::new (randel.rs:27-34)
randel_new(len, r) == randel_build(len, r, check_empty(len))

\* randel.rs:45-47: (len as f64 * uni).floor().min(len as f64 - 1.0) as usize
randel_index(len, uni) ==
    as_usize(min(floor(FMul(U64ToF64(len), uni)), FSub(U64ToF64(len), FOne)))

\* randel.rs:49: &self.vec[index] panics when index is not below the length
randel_element(w, g, index) ==
    [rng |-> g.rng,
     ret |-> IF Cmp(index, w.len) < 0 THEN [index |-> index] ELSE [panic |-> TRUE, index |-> index],
     draws |-> g.draws]

\* randel.rs:42
randel_draw(w, g) == randel_element(w, g, randel_index(w.len, g.ret))

\* RandEl::generate (randel.rs:41-50)
randel_generate(w, r) == randel_draw(w, generate(r))

MaxPicks == 3

\* lengths: 0, small ones, and lengths of vectors of zero-sized elements
\* beyond 2^53, where len as f64 is rounded
RandElLens ==
    {U64(0), U64(1), U64(2), U64(3), <<1, 0, 0, 0, 0, 0, 32, 0>>, <<3, 0, 0, 0, 0, 0, 32, 0>>,
     U64_MAX}

\* RandEl::new(vec) at a clock reading whose low 64 bits are s
RandElNew(len, s) ==
    /\ hist = <<>>
    /\ \E res \in {randel_new(len, new_seed(s))} :
           /\ hist' = <<[op |-> "RandEl::new", arg |-> Some(len), pre |-> None,
                         ret |-> Some(res), draws |-> 0]>>
           /\ IF IsOk(res)
              THEN /\ rng' = res.rng[1]
                   /\ built' = [by |-> "new", seed |-> s, of |-> res.ok]
              ELSE /\ rng' = None
                   /\ built' = Nothing
    /\ UNCHANGED <<clock, pc>>

\* generate on the RandEl, unless an earlier call panicked
RandElGenerate ==
    /\ built # Nothing
    /\ Len(hist) <= MaxPicks
    /\ "panic" \notin DOMAIN hist[Len(hist)].ret[1]
    /\ \E g \in {randel_generate(built.of, rng)} :
           /\ hist' = Append(hist, Call("RandEl::generate", None, Returned(g)))
           /\ rng' = g.rng
    /\ UNCHANGED <<clock, built, pc>>

NextRandEl ==
    \/ \E len \in RandElLens, s \in Seeds : RandElNew(len, s)
    \/ RandElGenerate

SpecRandEl == InitNothing /\ [][NextRandEl]_vars

\* a distribution used through generate and generate_multiple
MaxMulti == 3
MaxNumber == 2

MultiWrappers ==
    {UniformOf(FNeg(FOne), Float(FALSE, <<3>>, 0)), NormalOf(FZero, FOne),
     BernoulliOf(FZero), BernoulliOf(FHalf), BernoulliOf(FOne)}

MultiSeeds == {SeedToZero, SeedToMax}

InitMulti ==
    /\ clock = 0
    /\ rng = new
    /\ \E w \in MultiWrappers : built = [by |-> "new", seed |-> current_time, of |-> w]
    /\ hist = <<>>
    /\ pc = Idle

MultiGenerate ==
    /\ Len(hist) < MaxMulti
    /\ \E g \in {wrapper_generate(built.of, rng)} :
           /\ hist' = Append(hist, Call("wrapper.generate", None, Returned(g)))
           /\ rng' = g.rng
    /\ UNCHANGED <<clock, built, pc>>

MultiGenerateMultiple(number) ==
    /\ Len(hist) < MaxMulti
    /\ \E g \in {generate_multiple(built.of, rng, number)} :
           /\ hist' = Append(hist, Call("wrapper.generate_multiple", Some(number), g))
           /\ rng' = g.rng
    /\ UNCHANGED <<clock, built, pc>>

MultiSetSeed(s) ==
    /\ Len(hist) < MaxMulti
    /\ hist' = Append(hist, Call("wrapper.set_seed", Some(s), NoResult))
    /\ rng' = trait_set_seed(rng, s)
    /\ UNCHANGED <<clock, built, pc>>

NextMulti ==
    \/ MultiGenerate
    \/ \E number \in 0..MaxNumber : MultiGenerateMultiple(number)
    \/ \E s \in MultiSeeds : MultiSetSeed(s)

SpecMulti == InitMulti /\ [][NextMulti]_vars

\* Bernoulli::coin() under generate, set_seed and change_probability; a
\* call's record also keeps the Bernoulli the call found (was)
InitBernoulli ==
    /\ clock = 0
    /\ rng = new
    /\ built = [by |-> "new", seed |-> current_time, of |-> BernoulliOf(FHalf)]
    /\ hist = <<>>
    /\ pc = Idle

BernoulliCalled(op, arg, ret, draws) ==
    [op |-> op, arg |-> arg, pre |-> rng, ret |-> ret, draws |-> draws, was |-> built.of]

BernoulliGenerate ==
    /\ Len(hist) < MaxOps
    /\ \E g \in {bernoulli_generate(built.of, rng)} :
           /\ hist' = Append(hist, BernoulliCalled("generate", None, Some(g.ret), g.draws))
           /\ rng' = g.rng
    /\ UNCHANGED <<clock, built, pc>>

BernoulliSetSeed(s) ==
    /\ Len(hist) < MaxOps
    /\ hist' = Append(hist, BernoulliCalled("set_seed", Some(s), None, 0))
    /\ rng' = trait_set_seed(rng, s)
    /\ UNCHANGED <<clock, built, pc>>

ChangeProbability(probability) ==
    /\ Len(hist) < MaxOps
    /\ \E c \in {bernoulli_change_probability(built.of, probability)} :
           /\ hist' = Append(hist, BernoulliCalled("change_probability", Some(probability),
                                                   Some(c.res), 0))
           /\ built' = [built EXCEPT !.of = c.of]
    /\ UNCHANGED <<clock, rng, pc>>

NextBernoulli ==
    \/ BernoulliGenerate
    \/ \E s \in MultiSeeds : BernoulliSetSeed(s)
    \/ \E probability \in BinomialProbabilities : ChangeProbability(probability)

SpecBernoulli == InitBernoulli /\ [][NextBernoulli]_vars

\* ------------------------------------------------------------------------
\* Reading the history
\* ------------------------------------------------------------------------

\* the engine after call i
Post(i) == IF i = Len(hist) THEN rng ELSE hist[i + 1].pre

IsDraw(e) == e.op \in {"generate", "gen_standard_normal"}

Calls(op) == {i \in 1..Len(hist) : hist[i].op = op}

\* the last call that was not a draw (0 if every call was a draw)
RECURSIVE LastNonDraw(_)
LastNonDraw(i) == IF i = 0 \/ ~IsDraw(hist[i]) THEN i ELSE LastNonDraw(i - 1)

\* the number of draws that directly follow call i
RECURSIVE RunAfter(_)
RunAfter(i) == IF i = Len(hist) \/ ~IsDraw(hist[i + 1]) THEN 0 ELSE 1 + RunAfter(i + 1)

RECURSIVE DrawsIn(_, _)
DrawsIn(from, to) == IF from > to THEN 0 ELSE hist[from].draws + DrawsIn(from + 1, to)

\* a second engine r driven through calls from+1 .. to of the history: the
\* engine it ends as, and what it returned
RECURSIVE Replay(_, _, _)
Replay(r, from, to) ==
    IF from >= to THEN [rng |-> r, rets |-> <<>>]
    ELSE LET g == IF hist[from + 1].op = "generate" THEN generate(r)
                  ELSE gen_standard_normal(r)
             rest == Replay(g.rng, from + 1, to)
         IN  [rng |-> rest.rng, rets |-> <<Some(g.ret)>> \o rest.rets]

Rets(from, to) == [k \in 1..(to - from) |-> hist[from + k].ret]

\* the recurrence state' = (A * state + C) mod 2^64, from the full 128-bit
\* product, with A read from its decimal digits
\* (the comparisons in FromDecimal and LcgIter only make TLC compute a value
\* before it recurses)
RECURSIVE FromDecimal(_, _)
FromDecimal(digits, acc) ==
    IF digits = <<>> THEN acc
    ELSE LET t == AddN(MulN(acc, <<10>>, 2 * U64Limbs), <<Head(digits)>>, 2 * U64Limbs)
         IN  IF t = acc THEN FromDecimal(Tail(digits), acc) ELSE FromDecimal(Tail(digits), t)

ADecimal == FromDecimal(<<6,3,6,4,1,3,6,2,2,3,8,4,6,7,9,3,0,0,5>>, Zeros(2 * U64Limbs))

LcgStep(x) == SubSeq(AddN(MulN(ADecimal, x, 2 * U64Limbs), <<1>>, 2 * U64Limbs), 1, U64Limbs)

RECURSIVE LcgIter(_, _)
LcgIter(x, k) ==
    IF k = 0 THEN x
    ELSE LET y == LcgStep(x)
         IN  IF y = x THEN LcgIter(x, k - 1) ELSE LcgIter(y, k - 1)

\* the seed last given to the engine by call i or before it: the argument
\* of the most recent set_seed, or the seed of the construction
RECURSIVE SeedGiven(_)
SeedGiven(i) ==
    IF i = 0 THEN built.seed
    ELSE IF hist[i].op = "set_seed" THEN hist[i].arg[1]
    ELSE SeedGiven(i - 1)

\* the number of calls of the distribution's generate that directly follow
\* call i
RECURSIVE WrapRunAfter(_)
WrapRunAfter(i) ==
    IF i = Len(hist) \/ hist[i + 1].op # "wrapper.generate" THEN 0
    ELSE 1 + WrapRunAfter(i + 1)

\* n calls of the generate of distribution w on a second engine r: the
\* engine they leave and what they return
RECURSIVE WrapReplay(_, _, _)

WrapReplayNext(w, g, n) ==
    [WrapReplay(w, g.rng, n - 1) EXCEPT !.rets = <<Some(g.ret)>> \o @]

WrapReplay(w, r, n) ==
    IF n = 0 THEN [rng |-> r, rets |-> <<>>]
    ELSE WrapReplayNext(w, wrapper_generate(w, r), n)

\* the f64 x is the number that generate returned as v: the same f64, or for
\* the u32 of a Bernoulli the f64 of that integer
SameNumber(w, x, v) ==
    IF w.kind = "Bernoulli" THEN (v = 0 /\ x = FZero) \/ (v = 1 /\ x = FOne)
    ELSE x = v

\* call i, a generate_multiple(number), against the calls of generate twin
MultipleIsCalls(i, number, twin) ==
    /\ Len(hist[i].ret) = number
    /\ \A k \in 1..number : SameNumber(built.of, hist[i].ret[k], twin.rets[k][1])
    /\ Post(i) = twin.rng
    /\ number = 0 => (hist[i].ret = <<>> /\ Post(i) = hist[i].pre)

IsErr(res, name) == "err" \in DOMAIN res /\ res.err = name

\* the sums of neighbours prev[j] + prev[j + 1], from index j on
RECURSIVE PascalSums(_, _)
PascalSums(prev, j) ==
    IF j >= Len(prev) THEN <<>>
    ELSE <<AddN(prev[j], prev[j + 1], U128Limbs)>> \o PascalSums(prev, j + 1)

\* row n of Pascal's triangle: n choose k at index k + 1, by additions alone
RECURSIVE PascalRow(_)
PascalRow(n) ==
    IF n = 0 THEN <<Pad(<<1>>, U128Limbs)>>
    ELSE CHOOSE row \in
             {<<Pad(<<1>>, U128Limbs)>> \o PascalSums(prev, 1) \o <<Pad(<<1>>, U128Limbs)>> :
                  prev \in {PascalRow(n - 1)}} : TRUE

\* the arguments Binomial::new accepts
BinomialAccepts(a) == a.n >= 1 /\ a.n <= 128 /\ f64_le(FZero, a.p) /\ f64_le(a.p, FOne)

\* the Bernoulli after call i
BernoulliAfter(i) == IF i = Len(hist) THEN built.of ELSE hist[i + 1].was

\* the logarithm is a number: the ln of a positive node, or interpolated
\* between two of them
IsFiniteLn(y) ==
    \/ "node" \in DOMAIN y /\ FLt(FZero, y.node)
    \/ /\ "lo" \in DOMAIN y
       /\ FLt(FZero, y.lo.node)
       /\ FLt(FZero, y.hi.node)
       /\ FLe(y.lo.node, y.x) \/ y.lo = ln_node(0)
       /\ FLe(y.x, y.hi.node)

\* the n-th pair (n >= 1) the loop of gen_standard_normal draws from the
\* engine r: u, v and s
RECURSIVE PairAt(_, _)
PairAt(r, n) ==
    LET g1 == generate(r)
        g2 == generate(g1.rng)
    IN  IF n <= 1
        THEN [u |-> Centered(g1.ret), v |-> Centered(g2.ret),
              s |-> SumOfSquares(Centered(g1.ret), Centered(g2.ret))]
        ELSE PairAt(g2.rng, n - 1)

\* x * factor with factor = sqrt(-2 * ln(s) / s), ln by simple_ln
TimesFactor(x, s) == [x |-> x, s |-> s, ln |-> simple_ln(s)]

\* the number of calls of gen_standard_normal among calls from .. to
RECURSIVE SamplesIn(_, _)
SamplesIn(from, to) ==
    IF from > to THEN 0
    ELSE (IF hist[to].op = "gen_standard_normal" THEN 1 ELSE 0) + SamplesIn(from, to - 1)

\* call i of gen_standard_normal counted from the last construction,
\* restart or set_seed
SampleNumber(i) == SamplesIn(LastNonDraw(i) + 1, i)

\* the pair an iteration of the loop of gen_standard_normal draws from the
\* engine r: its s and the engine after the two draws
PairDrawn(r) ==
    LET g1 == generate(r)
        g2 == generate(g1.rng)
    IN  [s |-> SumOfSquares(Centered(g1.ret), Centered(g2.ret)), rng |-> g2.rng]

\* the first n pairs drawn from r have s >= 1 or s = 0
RECURSIVE DiscardedPairs(_, _)
DiscardedPairs(r, n) ==
    \/ n = 0
    \/ \E p \in {PairDrawn(r)} :
           /\ FLe(FOne, p.s) \/ p.s = FZero
           /\ DiscardedPairs(p.rng, n - 1)

\* the argument x and the result y of a call of simple_ln
LnClamped(x, y) ==
    /\ IsFiniteLn(y)
    /\ FLe(x, FZero) => y = [node |-> LnEpsilon]

\* ------------------------------------------------------------------------
\* Claims
\* ------------------------------------------------------------------------

C2_GenerateStep ==
    \A i \in Calls("generate") :
        /\ A = SubSeq(ADecimal, 1, U64Limbs) /\ C = U64(1)
        /\ Post(i).state = LcgStep(hist[i].pre.state)
        /\ hist[i].ret = Some(Float(FALSE, Post(i).state, 0 - 64))
        /\ hist[i].draws = 1
        /\ Post(i).seed = hist[i].pre.seed

C2_Witness ==
    \E i \in Calls("generate") :
        /\ Post(i).state = Pad(<<1, 0, 0, 0, 0, 0, 32>>, U64Limbs)
        /\ hist[i].ret = Some([neg |-> FALSE, mant |-> <<1>>, exp |-> 0 - 11])

\* C3: under new_seed, new, generate, gen_standard_normal, restart and
\* set_seed, state is the recurrence applied k times to seed, k the number
\* of uniform draws made since the last construction, restart or set_seed.
C3_StateFromSeed ==
    rng.state = LcgIter(rng.seed, DrawsIn(LastNonDraw(Len(hist)) + 1, Len(hist)))

C3_Witness ==
    /\ LastNonDraw(Len(hist)) > 0
    /\ DrawsIn(LastNonDraw(Len(hist)) + 1, Len(hist)) >= 3
    /\ \E i \in Calls("gen_standard_normal") : hist[i].draws >= 4

\* C4: restart sets state := seed, and the draws that follow a restart are
\* those of a second engine newly built by new_seed with that seed and
\* driven by the same calls; the two engines are then equal.
C4_RestartAsFresh ==
    \A i \in Calls("restart") :
        LET n    == RunAfter(i)
            twin == Replay(new_seed(hist[i].pre.seed), i, i + n)
        IN  /\ Post(i).state = hist[i].pre.seed
            /\ Post(i).seed = hist[i].pre.seed
            /\ twin.rets = Rets(i, i + n)
            /\ twin.rng = Post(i + n)

\* a restart made after draws, with a value in the cache, and followed by a
\* generate and a gen_standard_normal
C4_Witness ==
    \E i \in Calls("restart") :
        /\ hist[i].pre.cached_normal # None
        /\ hist[i].pre.state # hist[i].pre.seed
        /\ i < Len(hist)
        /\ hist[i + 1].op = "gen_standard_normal"

\* C5: set_seed(s) sets seed and state to s, and the draws that follow are
\* those of a second engine newly built by new_seed(s) and driven by the
\* same calls; the two engines are then equal.
C5_SetSeedAsFresh ==
    \A i \in Calls("set_seed") :
        LET n    == RunAfter(i)
            s    == hist[i].arg[1]
            twin == Replay(new_seed(s), i, i + n)
        IN  /\ Post(i).seed = s
            /\ Post(i).state = s
            /\ twin.rets = Rets(i, i + n)
            /\ twin.rng = Post(i + n)

\* a set_seed to another seed, made after draws, with a value in the cache,
\* and followed by a draw
C5_Witness ==
    \E i \in Calls("set_seed") :
        /\ hist[i].pre.cached_normal # None
        /\ hist[i].pre.seed # hist[i].arg[1]
        /\ hist[i].pre.state # hist[i].pre.seed
        /\ i < Len(hist)
        /\ IsDraw(hist[i + 1])

\* the n calls after call i are those after call j
SameCalls(i, j, n) == \A p \in 1..n : hist[i + p].op = hist[j + p].op

\* C6: on one engine whose seed stays the same, the draws after a restart
\* and the draws after a later restart agree position by position, as far as
\* the same calls are made.
C6_RestartIdempotent ==
    \A i, j \in Calls("restart") :
        (i < j /\ Post(i).seed = Post(j).seed) =>
            \A n \in 1..RunAfter(j) :
                (n <= RunAfter(i) /\ SameCalls(i, j, n)) => hist[i + n].ret = hist[j + n].ret

\* two restarts, each followed by the same two draws, the second restart
\* made with a value in the cache
C6_Witness ==
    \E i, j \in Calls("restart") :
        /\ i < j
        /\ RunAfter(i) >= 2
        /\ RunAfter(j) >= 2
        /\ SameCalls(i, j, 2)
        /\ hist[j].pre.cached_normal # None

\* C7: gen_standard_normal called with a value in the cache returns that
\* value, empties the cache, and makes no draw: state and seed are unchanged.
C7_FastPath ==
    \A i \in Calls("gen_standard_normal") :
        hist[i].pre.cached_normal # None =>
            /\ hist[i].ret = hist[i].pre.cached_normal
            /\ Post(i).cached_normal = None
            /\ Post(i).state = hist[i].pre.state
            /\ Post(i).seed = hist[i].pre.seed
            /\ hist[i].draws = 0

\* the second gen_standard_normal after seeding, after a first one that
\* changed state
C7_Witness ==
    /\ Len(hist) >= 2
    /\ hist[1].op = "gen_standard_normal"
    /\ hist[2].op = "gen_standard_normal"
    /\ hist[2].pre.cached_normal # None
    /\ hist[2].pre.state # hist[1].pre.state

\* C8: after restart, set_seed, or any other change of seed, the cache is
\* empty.
C8_CacheClearedOnReseed ==
    \A i \in 1..Len(hist) :
        (hist[i].op \in {"restart", "set_seed"} \/ Post(i).seed # hist[i].pre.seed)
        => Post(i).cached_normal = None

\* C9: a gen_standard_normal that follows a set_seed(s) made with a value in
\* the cache returns the first value of the pair computed from the stream of
\* s, not the value that was in the cache.
C9_ReseedClearsCache ==
    \A i \in Calls("set_seed") :
        (hist[i].pre.cached_normal # None /\ i < Len(hist) /\ hist[i + 1].op = "gen_standard_normal")
        => /\ hist[i + 1].ret = Some(polar_loop(new_seed(hist[i].arg[1])).ret)
           /\ hist[i + 1].ret # hist[i].pre.cached_normal
           /\ hist[i + 1].draws >= 2

C9_Witness ==
    \E i \in Calls("set_seed") :
        /\ i > 1
        /\ hist[i - 1].op = "gen_standard_normal"
        /\ hist[i].pre.cached_normal # None
        /\ i < Len(hist)
        /\ hist[i + 1].op = "gen_standard_normal"

\* C10: every generate call returns a value, an f64 v with 0 <= v <= 1.
\* (The action Generate has no guard but the bound of the model.)
C10_UnitInterval ==
    \A i \in Calls("generate") :
        /\ Len(hist[i].ret) = 1
        /\ BitLen(hist[i].ret[1].mant) <= MantBits
        /\ FLe(FZero, hist[i].ret[1])
        /\ FLe(hist[i].ret[1], FOne)

\* draws of exactly 0 and of exactly 1
C10_Witness ==
    \E i, j \in Calls("generate") :
        /\ hist[i].ret = Some(FZero)
        /\ hist[j].ret = Some(FOne)

\* C11: a call of gen_standard_normal that has entered its loop leaves it,
\* whatever state the engine was in, and every call that has returned has
\* returned a value, the one the whole method computes from the engine the
\* call started with.
C11_SampleReturns ==
    /\ (pc.at = "loop") ~> (pc.at = "idle")
    /\ [](\A i \in Calls("gen_standard_normal") :
            /\ Len(hist[i].ret) = 1
            /\ hist[i].ret = Some(gen_standard_normal(hist[i].pre).ret)
            /\ hist[i].draws = gen_standard_normal(hist[i].pre).draws)

\* a call that returned after its first pair was rejected, and one that
\* returned from the cache
C11_Witness ==
    /\ pc.at = "idle"
    /\ \E i \in Calls("gen_standard_normal") : hist[i].draws >= 4
    /\ \E i \in Calls("gen_standard_normal") : hist[i].draws = 0

\* C12: generate, gen_standard_normal and restart leave seed as it was, and
\* after any calls seed() is the value given to the most recent new_seed,
\* new or set_seed.
C12_SeedFrame ==
    /\ seed_of(rng) = SeedGiven(Len(hist))
    /\ \A i \in 1..Len(hist) :
           /\ hist[i].op \in {"generate", "gen_standard_normal", "restart"}
                => seed_of(Post(i)) = seed_of(hist[i].pre)
           /\ seed_of(Post(i)) = SeedGiven(i)

\* a set_seed to another seed, then a draw that moved state, then a restart
C12_Witness ==
    /\ Len(hist) = 3
    /\ hist[1].op = "set_seed"
    /\ hist[1].arg[1] # hist[1].pre.seed
    /\ hist[2].op = "gen_standard_normal"
    /\ hist[3].op = "restart"
    /\ hist[3].pre.state # hist[3].pre.seed

\* C13: after the set_seed, restart or reset of a distribution its engine's
\* cache is empty, and the values its generate returns from there on are
\* those of the same distribution on an engine newly built with that seed,
\* whatever was drawn before and whether or not a value was cached.
C13_WrapperRestart ==
    \A i \in 1..Len(hist) :
        hist[i].op \in {"wrapper.set_seed", "wrapper.restart", "wrapper.reset"} =>
            /\ Post(i).cached_normal = None
            /\ Rets(i, i + WrapRunAfter(i))
                 = WrapReplay(built.of, new_seed(Post(i).seed), WrapRunAfter(i)).rets

\* a StudentsT with k = 2, whose generate takes three normal values: a
\* generate, a restart made with the cache full, a generate that returns
\* what the first returned, a reset made with the cache full
C13_Witness ==
    /\ built.of = StudentsTOf(2)
    /\ Len(hist) = 4
    /\ hist[1].op = "wrapper.generate"
    /\ hist[2].op = "wrapper.restart"
    /\ hist[2].pre.cached_normal # None
    /\ hist[3].op = "wrapper.generate"
    /\ hist[3].ret = hist[1].ret
    /\ hist[4].op = "wrapper.reset"
    /\ hist[4].pre.cached_normal # None

\* C14: an engine built by new is the engine new_seed(t) builds, t the low
\* 64 bits of the clock's nanosecond count when new was called (the count
\* starts at 2^64 + 7, so t = 7 + the clock reading): seed = state = t with
\* an empty cache, and its draws are those of new_seed(t); a second engine
\* built by new at the same clock reading returns the same draws.
C14_NewFromClock ==
    built.by = "new" =>
        LET t == U64(7 + built.clock)
        IN  /\ built.seed = t
            /\ AddN(Pad(t, 2 * U64Limbs), Pow2(64, 2 * U64Limbs), 2 * U64Limbs)
                 = AddN(EpochNanos, <<built.clock>>, 2 * U64Limbs)
            /\ (IF hist = <<>> THEN rng ELSE hist[1].pre) = new_seed(t)
            /\ Replay(new_seed(t), 0, RunAfter(0)).rets = Rets(0, RunAfter(0))
            /\ clock = built.clock
                 => Replay(new, 0, RunAfter(0)).rets = Rets(0, RunAfter(0))

\* an engine built by new after the clock has advanced, then drawn from by
\* gen_standard_normal and generate
C14_Witness ==
    /\ built.by = "new"
    /\ built.clock > 0
    /\ clock = built.clock
    /\ Len(hist) = 3
    /\ hist[1].op = "gen_standard_normal"
    /\ hist[2].op = "gen_standard_normal"
    /\ hist[3].op = "generate"

\* C15: generate_multiple(number) returns number values, the i-th the number
\* that the i-th of number calls of generate returns on an engine in the
\* state the call found, and leaves the engine as those calls leave it;
\* generate_multiple(0) returns the empty vector and changes nothing.
C15_GenerateMultiple ==
    \A i \in Calls("wrapper.generate_multiple") :
        \A twin \in {WrapReplay(built.of, hist[i].pre, hist[i].arg[1])} :
            MultipleIsCalls(i, hist[i].arg[1], twin)

\* a Normal whose generate_multiple(2) starts with a value in the cache,
\* after a generate_multiple(0) that left it there, returns it and draws
\* a new pair
C15_Witness ==
    /\ built.of.kind = "Normal"
    /\ Len(hist) = 3
    /\ hist[1].op = "wrapper.generate"
    /\ hist[2].op = "wrapper.generate_multiple"
    /\ hist[2].arg = Some(0)
    /\ hist[3].op = "wrapper.generate_multiple"
    /\ hist[3].arg = Some(2)
    /\ hist[3].pre.cached_normal # None
    /\ hist[3].draws >= 2
    /\ rng.cached_normal # None

\* C16: the generate of a Bernoulli with probability 0 returns 0 and that
\* of a Bernoulli with probability 1 returns 1, whatever the uniform draw.
C16_BernoulliEnds ==
    \A i \in Calls("wrapper.generate") :
        /\ built.of = BernoulliOf(FZero) => hist[i].ret = Some(0)
        /\ built.of = BernoulliOf(FOne) => hist[i].ret = Some(1)

\* C17: Binomial::new(n, p) returns Ok exactly when 1 <= n <= 128 and
\* 0 <= p <= 1, a PositiveError when n <= 0 and an IntervalError when n is
\* positive and n > 128 or p is not in [0, 1]; when it does not return Ok
\* there is no Binomial and no engine.
C17_BinomialNew ==
    \A i \in Calls("Binomial::new") :
        LET a     == hist[i].arg[1]
            res   == hist[i].ret[1]
            valid == a.n >= 1 /\ a.n <= 128 /\ f64_le(FZero, a.p) /\ f64_le(a.p, FOne)
        IN  /\ IsOk(res) <=> valid
            /\ a.n <= 0 => IsErr(res, "PositiveError")
            /\ (a.n >= 1 /\ ~valid) => IsErr(res, "IntervalError")
            /\ ~IsOk(res) => (rng = None /\ built = Nothing)
            /\ IsOk(res) => (rng = new_seed(rng.seed) /\ built.of.n = a.n /\ built.of.p = a.p)

\* C18: every call of simple_ln made by gen_standard_normal (on s) and by
\* the generate of a Geometric (on the uniform draw) returns a finite
\* logarithm, and for an argument x <= 0 the logarithm of the smallest
\* positive node of the table.
C18_LnClamped ==
    \A i \in Calls("wrapper.generate") :
        /\ (built.of.kind = "Normal" /\ hist[i].draws > 0)
             => LnClamped(hist[i].ret[1].z.s, hist[i].ret[1].z.ln)
        /\ built.of.kind = "Geometric"
             => LnClamped(generate(hist[i].pre).ret, hist[i].ret[1].num)

\* a Normal whose pair had s = 0, after a set_seed
C18_Witness ==
    \E i \in Calls("wrapper.generate") :
        /\ built.of.kind = "Normal"
        /\ hist[i].draws > 0
        /\ hist[i].ret[1].z.s = FZero

\* C19: a call of gen_standard_normal that draws returns and caches the
\* values of a pair with 0 < s < 1, and every pair it drew before that one
\* had s >= 1 or s = 0.
C19_RejectionRule ==
    \A i \in Calls("gen_standard_normal") :
        hist[i].draws > 0
        => /\ FLt(FZero, hist[i].ret[1].s)
           /\ FLt(hist[i].ret[1].s, FOne)
           /\ Post(i).cached_normal # None
           /\ Post(i).cached_normal[1].s = hist[i].ret[1].s
           /\ DiscardedPairs(hist[i].pre, hist[i].draws \div 2 - 1)

\* C20: a call of gen_standard_normal made with an empty cache leaves the
\* engine in another state than it found it, and one made with a value in
\* the cache leaves the state alone: of three calls in a row on a fresh
\* engine the 1st and the 3rd change the state and the 2nd does not.
C20_SampleAdvances ==
    /\ \A i \in Calls("gen_standard_normal") :
           /\ hist[i].pre.cached_normal = None
                => (Post(i).state # hist[i].pre.state /\ hist[i].draws >= 2)
           /\ hist[i].pre.cached_normal # None
                => (Post(i).state = hist[i].pre.state /\ hist[i].draws = 0)
    /\ (Len(hist) >= 3 /\ \A i \in 1..3 : hist[i].op = "gen_standard_normal")
         => /\ Post(1).state # hist[1].pre.state
            /\ Post(2).state = hist[2].pre.state
            /\ Post(3).state # hist[3].pre.state

\* the scenario: the engine seeded with 42, then three calls
C20_Witness ==
    /\ Len(hist) >= 3
    /\ \A i \in 1..3 : hist[i].op = "gen_standard_normal"
    /\ hist[1].pre = new_seed(Seed42)
    /\ Post(3).state # hist[3].pre.state

\* C21: the cache is empty at construction; counted from the last
\* construction, restart or set_seed, every odd call of gen_standard_normal
\* finds the cache empty, draws a pair and fills it, and every even call
\* finds it full, draws nothing and empties it; the cache holds a value
\* only when a call that computed a pair has been followed by no call but
\* generate.
C21_CacheLifecycle ==
    /\ hist = <<>> => rng.cached_normal = None
    /\ \A i \in Calls("gen_standard_normal") :
           IF SampleNumber(i) % 2 = 1
           THEN /\ hist[i].pre.cached_normal = None
                /\ hist[i].draws >= 2
                /\ Post(i).cached_normal # None
           ELSE /\ hist[i].pre.cached_normal # None
                /\ hist[i].draws = 0
                /\ Post(i).cached_normal = None
    /\ rng.cached_normal # None
         => \E j \in Calls("gen_standard_normal") :
                /\ hist[j].draws >= 2
                /\ \A k \in (j + 1)..Len(hist) : hist[k].op = "generate"
                /\ rng.cached_normal = Post(j).cached_normal

\* three calls in a row: empty -> full -> empty -> full
C21_Witness ==
    /\ Len(hist) = 3
    /\ \A i \in 1..3 : hist[i].op = "gen_standard_normal"
    /\ hist[1].pre.cached_normal = None
    /\ hist[2].pre.cached_normal # None
    /\ hist[3].pre.cached_normal = None
    /\ rng.cached_normal # None

\* C22: a call of gen_standard_normal that draws returns u * factor and
\* leaves v * factor in the cache, u, v and s those of the pair it
\* accepted (the last it drew) and factor = sqrt(-2 * ln(s) / s) the same
\* for both; a call of gen_standard_normal that follows returns that
\* v * factor.
C22_PairValues ==
    \A i \in Calls("gen_standard_normal") :
        hist[i].draws >= 2
        => \E p \in {PairAt(hist[i].pre, hist[i].draws \div 2)} :
              /\ FLt(p.s, FOne)
              /\ hist[i].ret = Some(TimesFactor(p.u, p.s))
              /\ Post(i).cached_normal = Some(TimesFactor(p.v, p.s))
              /\ (i < Len(hist) /\ hist[i + 1].op = "gen_standard_normal")
                   => (hist[i + 1].ret = Some(TimesFactor(p.v, p.s)) /\ hist[i + 1].draws = 0)

\* a pair with u # v accepted after a discarded one, and the call after it
C22_Witness ==
    \E i \in Calls("gen_standard_normal") :
        /\ hist[i].draws >= 4
        /\ i < Len(hist)
        /\ hist[i + 1].op = "gen_standard_normal"
        /\ hist[i + 1].ret # hist[i].ret

\* C23: A = 1 mod 4 and C is odd, and at the narrow word the recurrence
\* started from a seed comes back to the seed after exactly 2^CycleBits
\* steps and not before: the states form one cycle through every value of
\* the word, and no state repeats within fewer steps.
C23_FullPeriod ==
    /\ LowWord(A) % 4 = 1
    /\ LowWord(C) % 2 = 1
    /\ rng.state \in 0..(2 ^ CycleBits - 1)
    /\ built.steps \in 1..(2 ^ CycleBits - 1) => rng.state # rng.seed
    /\ built.steps = 2 ^ CycleBits => rng.state = rng.seed

\* the cycle closed
C23_Witness ==
    /\ built.steps = 2 ^ CycleBits
    /\ rng.state = rng.seed
    /\ rng.seed = 42

C25_FactorialFits ==
    \A i \in Calls("Binomial::new") :
        BinomialAccepts(hist[i].arg[1])
        => \E products \in {factorial_products(hist[i].arg[1].n)} :
              /\ \A k \in 0..hist[i].arg[1].n : ~products[k + 1].overflow
              /\ \E row \in {PascalRow(hist[i].arg[1].n)} :
                     \A k \in 0..hist[i].arg[1].n :
                         binomial_coefficient(products, hist[i].arg[1].n, k) = row[k + 1]

\* C26: change_probability(p) returns Ok exactly when 0 <= p <= 1, and then
\* the probability is p; otherwise it returns Err and the Bernoulli is as
\* it was; the engine is as it was in both cases.
C26_ChangeProbability ==
    \A i \in Calls("change_probability") :
        /\ IsOk(hist[i].ret[1])
             <=> (f64_le(FZero, hist[i].arg[1]) /\ f64_le(hist[i].arg[1], FOne))
        /\ IsOk(hist[i].ret[1]) => BernoulliAfter(i).probability = hist[i].arg[1]
        /\ ~IsOk(hist[i].ret[1]) => BernoulliAfter(i) = hist[i].was
        /\ Post(i) = hist[i].pre

\* C27: RandEl::new returns EmptyError for an empty vector and Ok for any
\* other, and every generate call on a RandEl of length len returns the
\* element at an index in 0..len-1, whatever the draw.
C27_IndexInBounds ==
    /\ \A i \in Calls("RandEl::new") :
           /\ IsZero(hist[i].arg[1]) <=> hist[i].ret[1] = EmptyError
           /\ ~IsZero(hist[i].arg[1]) =>
                  (IsOk(hist[i].ret[1]) /\ hist[i].ret[1].ok.len = hist[i].arg[1])
    /\ \A i \in Calls("RandEl::generate") :
           /\ "panic" \notin DOMAIN hist[i].ret[1]
           /\ Cmp(hist[i].ret[1].index, built.of.len) < 0

\* C28: a generate call leaves the cache as it found it, and a value that a
\* call of gen_standard_normal cached is what the next call of
\* gen_standard_normal returns, without a draw, when only generate calls
\* came between the two.
C28_GenerateKeepsCache ==
    /\ \A i \in Calls("generate") :
           /\ Post(i).cached_normal = hist[i].pre.cached_normal
           /\ Post(i).state # hist[i].pre.state
    /\ \A i, j \in Calls("gen_standard_normal") :
           (i < j /\ hist[i].draws >= 2 /\ \A k \in (i + 1)..(j - 1) : hist[k].op = "generate")
           => /\ hist[j].ret = Post(i).cached_normal
              /\ hist[j].draws = 0
              /\ hist[j].pre.seed = Post(i).seed

\* a value cached, three draws, and the value returned
C28_Witness ==
    \E i, j \in Calls("gen_standard_normal") :
        /\ j = i + 4
        /\ hist[i].draws >= 2
        /\ \A k \in (i + 1)..(j - 1) : hist[k].op = "generate"
        /\ hist[j].ret = Post(i).cached_normal
        /\ hist[j].pre.state # Post(i).state

\* C29: a call of gen_standard_normal that finds the cache empty makes 2k
\* draws for some k >= 1: the first k - 1 pairs fail the test s < 1, the
\* k-th passes it, the state has moved 2k steps and the cache is full.
\* When only calls of gen_standard_normal have been made since the last
\* construction, restart or set_seed, the number of draws since then is
\* even, and the cache is empty if and only if the number of calls is
\* even.
C29_EvenDraws ==
    /\ \A i \in Calls("gen_standard_normal") :
           hist[i].pre.cached_normal = None
           => /\ hist[i].draws >= 2
              /\ hist[i].draws % 2 = 0
              /\ \A n \in 1..(hist[i].draws \div 2 - 1) : ~FLt(PairAt(hist[i].pre, n).s, FOne)
              /\ FLt(PairAt(hist[i].pre, hist[i].draws \div 2).s, FOne)
              /\ Post(i).state = LcgIter(hist[i].pre.state, hist[i].draws)
              /\ Post(i).cached_normal # None
    /\ (\A k \in (LastNonDraw(Len(hist)) + 1)..Len(hist) : hist[k].op = "gen_standard_normal")
         => /\ DrawsIn(LastNonDraw(Len(hist)) + 1, Len(hist)) % 2 = 0
            /\ rng.state = LcgIter(rng.seed, DrawsIn(LastNonDraw(Len(hist)) + 1, Len(hist)))
            /\ rng.cached_normal = None <=> (Len(hist) - LastNonDraw(Len(hist))) % 2 = 0

\* after a set_seed, a call that discarded a pair and the call that
\* emptied the cache again
C29_Witness ==
    /\ Len(hist) = 3
    /\ hist[1].op = "set_seed"
    /\ hist[2].op = "gen_standard_normal"
    /\ hist[2].draws >= 4
    /\ hist[3].op = "gen_standard_normal"
    /\ rng.cached_normal = None

\* a second engine r put through call e of the history: the engine it
\* becomes and what the call returns
TwinCall(r, e) ==
    CASE e.op = "generate" -> [rng |-> generate(r).rng, ret |-> Some(generate(r).ret)]
      [] e.op = "gen_standard_normal" ->
            [rng |-> gen_standard_normal(r).rng, ret |-> Some(gen_standard_normal(r).ret)]
      [] e.op = "restart" -> [rng |-> restart(r), ret |-> None]
      [] e.op = "set_seed" -> [rng |-> set_seed(r, e.arg[1]), ret |-> None]

\* the second engine r, about to make call i, returns what the first
\* returned and is what the first was, after call i and every later call
RECURSIVE TwinAgrees(_, _)
TwinAgrees(r, i) ==
    \/ i > Len(hist)
    \/ \E t \in {TwinCall(r, hist[i])} :
          /\ t.ret = hist[i].ret
          /\ t.rng.seed = Post(i).seed
          /\ t.rng.state = Post(i).state
          /\ t.rng.cached_normal = Post(i).cached_normal
          /\ TwinAgrees(t.rng, i + 1)

====
